---------------------------- MODULE Spec2Model ----------------------------
(***************************************************************************)
(* A model of the stock application's presentation logic:                  *)
(*   - SearchScreen (src/client/screens/SearchScreen.js): the watch-list   *)
(*     initialisation, the search filter and the press handler;            *)
(*   - StockGraph (src/unnamed/part_000): the date window, the label       *)
(*     down-sampling and the effect that computes the displayed series.    *)
(*                                                                         *)
(* JavaScript strings that the code takes apart (the query, Symbol, Name)  *)
(* are sequences of one-character strings.  A JavaScript value that may be *)
(* null or undefined is a record [kind, items].  React runs a component's  *)
(* passive effects after the render a state change causes and before the   *)
(* next event is handled, so a handler's action includes the effect run    *)
(* it triggers.                                                            *)
(***************************************************************************)
EXTENDS Integers, Sequences, FiniteSets, TLC

VARIABLES
    \* SearchScreen: the filter
    stockList, searchQuery, rowData,
    \* SearchScreen: initialiseData
    initPc, mounted, mounts, remote, asyncStorage, newStocksFromDB,
    newStocksFromAsync, contextState, contextCalls, runWrites,
    \* SearchScreen: onPress
    pressPc, pressSymbol, tokenRead, token, watchlist, events,
    \* StockGraph
    stocks, delivered, filter, toggle, labels, values, newArray, now, ran

searchVars == <<stockList, searchQuery, rowData>>
initVars == <<initPc, mounted, mounts, remote, asyncStorage, newStocksFromDB,
              newStocksFromAsync, contextState, contextCalls, runWrites>>
pressVars == <<pressPc, pressSymbol, tokenRead, token, watchlist, events>>
graphVars == <<stocks, delivered, filter, toggle, labels, values, newArray,
               now, ran>>
vars == <<searchVars, initVars, pressVars, graphVars>>

----------------------------------------------------------------------------
(* Bounds of the model *)

MaxList == 3
MaxQuery == 2
MaxWatch == 2
MaxMounts == 2
MaxPress == 2
MaxSeries == 3
MaxDay == 5
MaxWindow == 3
MaxTicks == 2

----------------------------------------------------------------------------
(* Generic helpers *)

Range(s) == {s[i] : i \in 1..Len(s)}

SeqsUpTo(S, n) == UNION {[1..k -> S] : k \in 0..n}

NoDupSeqsUpTo(S, n) ==
    {s \in SeqsUpTo(S, n) : \A i, j \in 1..Len(s) : i # j => s[i] # s[j]}

Count(x, s) == Cardinality({i \in 1..Len(s) : s[i] = x})

\* JavaScript null, undefined, arrays and strings
JSNull == [kind |-> "null", items |-> <<>>]
JSUndefined == [kind |-> "undefined", items |-> <<>>]
JSArray(s) == [kind |-> "array", items |-> s]
JSString(s) == [kind |-> "string", items |-> s]

----------------------------------------------------------------------------
(* SearchScreen: the search filter *)

Lower == <<"a", "b">>
Upper == <<"A", "B">>
Alphabet == Range(Lower) \cup Range(Upper)

\* String.prototype.toUpperCase, character by character
UpperChar(c) ==
    IF \E i \in 1..Len(Lower) : Lower[i] = c
    THEN Upper[CHOOSE i \in 1..Len(Lower) : Lower[i] = c]
    ELSE c

toUpperCase(s) == [i \in 1..Len(s) |-> UpperChar(s[i])]

\* String.prototype.startsWith
startsWith(s, p) == Len(p) <= Len(s) /\ SubSeq(s, 1, Len(p)) = p

\* The instruments the stock-list hook can deliver: symbols are upper case,
\* names are mixed case.
Instruments ==
    { [Symbol |-> <<"A", "B">>, Name |-> <<"A", "b">>],
      [Symbol |-> <<"A">>,      Name |-> <<"b", "a">>],
      [Symbol |-> <<"B", "A">>, Name |-> <<"a", "B">>],
      [Symbol |-> <<"B">>,      Name |-> <<"B", "b">>] }

StockLists == NoDupSeqsUpTo(Instruments, MaxList)

Queries == {JSString(q) : q \in SeqsUpTo(Alphabet, MaxQuery)}

filterBySearchNoUpper(data, param) ==
    SelectSeq(data,
        LAMBDA stock : startsWith(stock.Symbol, param)
                       \/ startsWith(stock.Name, param))

filterBySearch(data, param) ==
    SelectSeq(data,
        LAMBDA stock : startsWith(stock.Symbol, toUpperCase(param))
                       \/ startsWith(stock.Name, param))

\* The effect with dependencies [stockList, searchQuery, rowData.props]
RowDataEffect(list, query) ==
    IF query # JSNull THEN filterBySearch(list, query.items) ELSE list

SearchInit ==
    /\ stockList = <<>>
    /\ searchQuery = JSNull
    /\ rowData = RowDataEffect(<<>>, JSNull)

onChangeSearch(query) ==
    /\ searchQuery' = query
    /\ stockList' = stockList
    /\ rowData' = RowDataEffect(stockList, query)
    /\ UNCHANGED <<initVars, pressVars, graphVars>>

StockListChanges(list) ==
    /\ stockList' = list
    /\ searchQuery' = searchQuery
    /\ rowData' = RowDataEffect(list, searchQuery)
    /\ UNCHANGED <<initVars, pressVars, graphVars>>


----------------------------------------------------------------------------
(* SearchScreen: initialiseData *)

Symbols == {"AAPL", "AMZN", "MSFT"}

WatchLists == NoDupSeqsUpTo(Symbols, MaxWatch)

IsMissing(v) == v = JSNull \/ v = JSUndefined

\* What a watch-list read can resolve to: the stored entries, or a missing
\* result.
ReadResults(entries) == {JSArray(entries), JSNull, JSUndefined}

\* The callback of the second map (lines 67-73), folded over the array it is
\* given: acc is [newState, writes].
RECURSIVE PushIfAbsent(_, _)
PushIfAbsent(elements, acc) ==
    IF elements = <<>> THEN acc
    ELSE LET element == Head(elements)
             isInvalidElement == element \in Range(acc.newState)
         IN PushIfAbsent(Tail(elements),
                IF ~isInvalidElement
                THEN [newState |-> Append(acc.newState, element),
                      writes |-> Append(acc.writes, element)]
                ELSE acc)

\* Lines 59-75, run once both reads have resolved.  Both guards are
\* disjunctions of two inequalities.  Calling map on null or undefined throws
\* a TypeError, which rejects initialiseData's promise before line 75.  The
\* second map runs over newStocksFromAsync.
initialiseData(fromDB, fromAsync) ==
    LET nothing == [threw |-> TRUE, newState |-> <<>>, writes |-> <<>>]
    IN IF fromAsync # JSUndefined \/ fromAsync # JSNull
       THEN IF IsMissing(fromAsync) THEN nothing
            ELSE LET acc == [newState |-> fromAsync.items, writes |-> <<>>]
                 IN IF fromDB # JSUndefined \/ fromDB # JSNull
                    THEN LET merged == PushIfAbsent(fromAsync.items, acc)
                         IN [threw |-> FALSE, newState |-> merged.newState,
                             writes |-> merged.writes]
                    ELSE [threw |-> FALSE, newState |-> acc.newState,
                          writes |-> <<>>]
       ELSE IF fromDB # JSUndefined \/ fromDB # JSNull
            THEN nothing
            ELSE [threw |-> FALSE, newState |-> <<>>, writes |-> <<>>]

NotCalled == [kind |-> "not called", items |-> <<>>]

\* The screen has just been mounted: the mount effect has called
\* initialiseData, which is suspended on getStocksFromDB().  The database
\* holds remoteEntries and the storage cachedEntries.
InitialiseAt(remoteEntries, cachedEntries) ==
    /\ initPc = "getStocksFromDB"
    /\ mounted = TRUE
    /\ mounts = 1
    /\ remote = remoteEntries
    /\ asyncStorage = cachedEntries
    /\ newStocksFromDB = JSUndefined
    /\ newStocksFromAsync = JSUndefined
    /\ contextState = NotCalled
    /\ contextCalls = 0
    /\ runWrites = <<>>

InitialiseInit ==
    \E remoteEntries \in WatchLists, cachedEntries \in WatchLists :
        InitialiseAt(remoteEntries, cachedEntries)

\* await getStocksFromDB() resolves (line 60); _retrieveData() is called.
GetStocksFromDBResolves(result) ==
    /\ initPc = "getStocksFromDB"
    /\ newStocksFromDB' = result
    /\ initPc' = "_retrieveData"
    /\ UNCHANGED <<mounted, mounts, remote, asyncStorage, newStocksFromAsync,
                   contextState, contextCalls, runWrites>>
    /\ UNCHANGED <<searchVars, pressVars, graphVars>>

\* await _retrieveData() resolves (line 61) and lines 62-75 run.
RetrieveDataResolves(result) ==
    /\ initPc = "_retrieveData"
    /\ newStocksFromAsync' = result
    /\ LET out == initialiseData(newStocksFromDB, result)
       IN /\ initPc' = IF out.threw THEN "threw" ELSE "done"
          /\ runWrites' = out.writes
          /\ asyncStorage' = asyncStorage \o
                 SelectSeq(out.writes, LAMBDA s : s \notin Range(asyncStorage))
          /\ contextState' = IF out.threw THEN contextState
                             ELSE JSArray(out.newState)
          /\ contextCalls' = IF out.threw THEN contextCalls
                             ELSE contextCalls + 1
    /\ UNCHANGED <<mounted, mounts, remote, newStocksFromDB>>
    /\ UNCHANGED <<searchVars, pressVars, graphVars>>

\* The screen is torn down; the effect of line 100 returns no cleanup.
Unmount ==
    /\ mounted
    /\ mounted' = FALSE
    /\ UNCHANGED <<initPc, mounts, remote, asyncStorage, newStocksFromDB,
                   newStocksFromAsync, contextState, contextCalls, runWrites>>
    /\ UNCHANGED <<searchVars, pressVars, graphVars>>

\* The screen is mounted again once the previous initialisation has ended:
\* the mount effect (lines 100-102) calls initialiseData afresh.
Mount ==
    /\ ~mounted
    /\ initPc \in {"done", "threw"}
    /\ mounts < MaxMounts
    /\ mounted' = TRUE
    /\ mounts' = mounts + 1
    /\ initPc' = "getStocksFromDB"
    /\ newStocksFromDB' = JSUndefined
    /\ newStocksFromAsync' = JSUndefined
    /\ runWrites' = <<>>
    /\ UNCHANGED <<remote, asyncStorage, contextState, contextCalls>>
    /\ UNCHANGED <<searchVars, pressVars, graphVars>>

----------------------------------------------------------------------------
(* SearchScreen: onPress *)

Presses == 1..MaxPress

NoToken == "null"
Tokens == {NoToken, "jwt"}

NoSymbol == "none"

PressAt(stored) ==
    /\ pressPc = [p \in Presses |-> "idle"]
    /\ pressSymbol = [p \in Presses |-> NoSymbol]
    /\ tokenRead = [p \in Presses |-> NoToken]
    /\ token = stored
    /\ watchlist = {}
    /\ events = [p \in Presses |-> <<>>]

PressInit == \E stored \in Tokens : PressAt(stored)

\* events[p] is the log of what press p has done.  The stock row is pressed: onPress(item.Symbol) calls addToWatchlist and
\* suspends on it (line 87).
onPress(p, symbol) ==
    /\ pressPc[p] = "idle"
    /\ pressPc' = [pressPc EXCEPT ![p] = "addToWatchlist"]
    /\ pressSymbol' = [pressSymbol EXCEPT ![p] = symbol]
    /\ UNCHANGED <<tokenRead, token, watchlist, events>>
    /\ UNCHANGED <<searchVars, initVars, graphVars>>

\* The context's addToWatchlist: a no-op when the symbol is already in the
\* watch list, otherwise the symbol is added.
addToWatchlist(list, symbol) == list \cup {symbol}

\* addToWatchlist resolves; onPress calls AsyncStorage.getItem("token")
\* (line 88) and suspends on it.
AddToWatchlistResolves(p) ==
    /\ pressPc[p] = "addToWatchlist"
    /\ watchlist' = addToWatchlist(watchlist, pressSymbol[p])
    /\ pressPc' = [pressPc EXCEPT ![p] = "getItem"]
    /\ events' = [events EXCEPT ![p] =
                      Append(@, [what |-> "added", to |-> pressSymbol[p]])]
    /\ UNCHANGED <<pressSymbol, tokenRead, token>>
    /\ UNCHANGED <<searchVars, initVars, graphVars>>

\* The storage reads the token for the pending getItem.
GetItemReads(p) ==
    /\ pressPc[p] = "getItem"
    /\ tokenRead' = [tokenRead EXCEPT ![p] = token]
    /\ pressPc' = [pressPc EXCEPT ![p] = "navigate"]
    /\ events' = [events EXCEPT ![p] =
                      Append(@, [what |-> "token", to |-> token])]
    /\ UNCHANGED <<pressSymbol, token, watchlist>>
    /\ UNCHANGED <<searchVars, initVars, graphVars>>

DestinationSwapped(getTokenFromAsync) ==
    IF getTokenFromAsync = NoToken THEN "Stocks" ELSE "SignInScreen"

\* Lines 90-94
Destination(getTokenFromAsync) ==
    IF getTokenFromAsync = NoToken THEN "SignInScreen" ELSE "Stocks"

\* getItem resolves and lines 90-94 navigate.
Navigate(p) ==
    /\ pressPc[p] = "navigate"
    /\ events' = [events EXCEPT ![p] =
                      Append(@, [what |-> "navigate",
                                 to |-> Destination(tokenRead[p])])]
    /\ pressPc' = [pressPc EXCEPT ![p] = "done"]
    /\ UNCHANGED <<pressSymbol, tokenRead, token, watchlist>>
    /\ UNCHANGED <<searchVars, initVars, graphVars>>

\* Signing in or out elsewhere in the application changes the stored token.
TokenChanges(t) ==
    /\ t # token
    /\ token' = t
    /\ UNCHANGED <<pressPc, pressSymbol, tokenRead, watchlist, events>>
    /\ UNCHANGED <<searchVars, initVars, graphVars>>

----------------------------------------------------------------------------
(* StockGraph *)

\* Time is counted in half days; a label is a day number, and new Date(label)
\* is that day's midnight.
TicksPerDay == 2

TargetCount == 5

DateOf(label) == label * TicksPerDay

\* One point of the series the stock hook delivers for a day.
Point(day) == [labels |-> day,
               data |-> 50 + ((day * 3) % 7),
               percentage |-> (day % 3) - 1]

Reverse(s) == [i \in 1..Len(s) |-> s[Len(s) + 1 - i]]

filterByDateInclusive(data, param) ==
    LET newDate == now - param * TicksPerDay
    IN SelectSeq(data, LAMBDA stock : DateOf(stock.labels) >= newDate)

\* newDate is the clock's reading moved back param days; filter builds a new
\* array and leaves data as it is.
filterByDate(data, param) ==
    LET newDate == now - param * TicksPerDay
    IN SelectSeq(data, LAMBDA stock : DateOf(stock.labels) > newDate)

\* i % nth === nth - 1 in IEEE-754 doubles, for the double nth nearest to
\* num / den.  The remainder of doubles is exact, and so is nth - 1 for
\* nth >= 1, so the test holds exactly when i + 1 is a positive multiple of
\* nth.  When den divides num, nth is the integer num / den; nth = 0 gives
\* NaN, which equals nothing.  Otherwise (den = 5) the quotient has no finite
\* binary expansion and is rounded to a double with more than forty
\* fractional bits, of which no index of an array is a multiple; for nth < 1
\* the right-hand side is negative and the remainder is not.
RemainderIsLast(i, nth) ==
    IF nth.num % nth.den = 0
    THEN LET k == nth.num \div nth.den IN k > 0 /\ i % k = k - 1
    ELSE FALSE

\* arr.filter((e, i) => ...): kept[k] is what the first k elements leave, the
\* k-th element having the zero-based index k - 1.
filterElements(arr, nth) ==
    LET kept[k \in 0..Len(arr)] ==
            IF k = 0 THEN <<>>
            ELSE IF RemainderIsLast(k - 1, nth) THEN Append(kept[k - 1], arr[k])
                 ELSE kept[k - 1]
    IN kept[Len(arr)]

\* The effect with dependencies [stocks, filter, toggle] (lines 95-112).
\* reverse() reverses the hook's array in place and returns that same array.
\* An undefined filter is <<>>, a window of d days is <<d>>.
StockGraphEffect(stk, flt, tgl) ==
    IF Len(stk) > 0
    THEN LET reversed == Reverse(stk)
             arr == IF flt # <<>> THEN filterByDate(reversed, flt[1])
                    ELSE reversed
             INDEX == [num |-> Len(arr), den |-> TargetCount]
             newIndexes == [i \in 1..Len(arr) |-> arr[i].labels]
             newLabels == filterElements(newIndexes, INDEX)
         IN [stocks |-> reversed, newArray |-> arr, labels |-> newLabels,
             values |-> IF tgl
                        THEN [i \in 1..Len(arr) |-> arr[i].percentage]
                        ELSE [i \in 1..Len(arr) |-> arr[i].data],
             ran |-> TRUE]
    ELSE [stocks |-> stk, newArray |-> newArray, labels |-> labels,
          values |-> values, ran |-> ran]

\* The days a delivered series may hold, around the clock's first reading
\* (midday of day 100) and the three windows.
GraphDays == {30, 40, 41, 70, 71, 93, 94, 95, 99, 100}

GraphStart == 100 * TicksPerDay + 1

FilterWindows == {7, 30, 60}

RECURSIVE Descending(_)
Descending(S) ==
    IF S = {} THEN <<>>
    ELSE LET m == CHOOSE x \in S : \A y \in S : y <= x
         IN <<Point(m)>> \o Descending(S \ {m})

\* The series the source can deliver: newest day first.
DeliveredSeries == {Descending(S) : S \in (SUBSET GraphDays) \ {{}}}

GraphInit ==
    /\ stocks = <<>>
    /\ delivered = <<>>
    /\ filter = <<>>
    /\ toggle = FALSE
    /\ labels = <<>>
    /\ values = <<>>
    /\ newArray = <<>>
    /\ now = GraphStart
    /\ ran = FALSE

RunEffect(stk, flt, tgl) ==
    LET out == StockGraphEffect(stk, flt, tgl)
    IN /\ stocks' = out.stocks
       /\ newArray' = out.newArray
       /\ labels' = out.labels
       /\ values' = out.values
       /\ ran' = out.ran

\* useStockCodes delivers the series; the effect runs for the new stocks.
StocksLoaded(series) ==
    /\ delivered = <<>>
    /\ delivered' = series
    /\ RunEffect(series, filter, toggle)
    /\ UNCHANGED <<filter, toggle, now>>
    /\ UNCHANGED <<searchVars, initVars, pressVars>>

\* 1W, 1M, 2M and R (lines 131-149).  Setting the state to the value it has
\* causes no render and no effect run.
setFilter(f) ==
    /\ delivered # <<>>
    /\ f # filter
    /\ filter' = f
    /\ RunEffect(stocks, f, toggle)
    /\ UNCHANGED <<delivered, toggle, now>>
    /\ UNCHANGED <<searchVars, initVars, pressVars>>

handleToggle ==
    /\ delivered # <<>>
    /\ toggle' = ~toggle
    /\ RunEffect(stocks, filter, ~toggle)
    /\ UNCHANGED <<delivered, filter, now>>
    /\ UNCHANGED <<searchVars, initVars, pressVars>>

Tick ==
    /\ now < GraphStart + MaxTicks
    /\ now' = now + 1
    /\ UNCHANGED <<stocks, delivered, filter, toggle, labels, values,
                   newArray, ran>>
    /\ UNCHANGED <<searchVars, initVars, pressVars>>

----------------------------------------------------------------------------
(* filterByDate on its own: any series, in any order, and any window *)

WindowDays == 0..MaxDay

WindowInit ==
    /\ stocks \in SeqsUpTo({Point(d) : d \in WindowDays}, MaxSeries)
    /\ delivered = stocks
    /\ filter \in {<<d>> : d \in 0..MaxWindow}
    /\ now \in ((MaxDay - 1) * TicksPerDay)..(MaxDay * TicksPerDay)
    /\ toggle = FALSE
    /\ labels = <<>>
    /\ values = <<>>
    /\ newArray = <<>>
    /\ ran = FALSE

ApplyFilterByDate ==
    /\ ~ran
    /\ newArray' = filterByDate(stocks, filter[1])
    /\ stocks' = stocks
    /\ ran' = TRUE
    /\ UNCHANGED <<delivered, filter, toggle, labels, values, now>>
    /\ UNCHANGED <<searchVars, initVars, pressVars>>

----------------------------------------------------------------------------
(* Specifications: one per component, the other components at rest *)

SearchQuiet == SearchInit

InitialiseQuiet == InitialiseAt(<<>>, <<>>)

PressQuiet == PressAt(NoToken)

GraphQuiet == GraphInit

InitSearch == SearchInit /\ InitialiseQuiet /\ PressQuiet /\ GraphQuiet

NextSearch ==
    \/ \E query \in Queries : onChangeSearch(query)
    \/ \E list \in StockLists : StockListChanges(list)

SpecSearch == InitSearch /\ [][NextSearch]_vars

InitInitialise == InitialiseInit /\ SearchQuiet /\ PressQuiet /\ GraphQuiet

NextInitialise ==
    \/ \E result \in ReadResults(remote) : GetStocksFromDBResolves(result)
    \/ \E result \in ReadResults(asyncStorage) : RetrieveDataResolves(result)
    \/ Unmount
    \/ Mount

SpecInitialise == InitInitialise /\ [][NextInitialise]_vars

InitPress == PressInit /\ SearchQuiet /\ InitialiseQuiet /\ GraphQuiet

NextPress ==
    \/ \E p \in Presses, symbol \in Symbols : onPress(p, symbol)
    \/ \E p \in Presses : AddToWatchlistResolves(p)
    \/ \E p \in Presses : GetItemReads(p)
    \/ \E p \in Presses : Navigate(p)
    \/ \E t \in Tokens : TokenChanges(t)

\* A pending promise resolves, and the event loop runs the continuation of
\* every resolved promise.
PressFairness ==
    \A p \in Presses :
        /\ WF_vars(AddToWatchlistResolves(p))
        /\ WF_vars(GetItemReads(p))
        /\ WF_vars(Navigate(p))

SpecPress == InitPress /\ [][NextPress]_vars /\ PressFairness

InitGraph == GraphInit /\ SearchQuiet /\ InitialiseQuiet /\ PressQuiet

NextGraph ==
    \/ \E series \in DeliveredSeries : StocksLoaded(series)
    \/ \E f \in {<<>>} \cup {<<d>> : d \in FilterWindows} : setFilter(f)
    \/ handleToggle
    \/ Tick

SpecGraph == InitGraph /\ [][NextGraph]_vars

InitWindow == WindowInit /\ SearchQuiet /\ InitialiseQuiet /\ PressQuiet

NextWindow == ApplyFilterByDate

SpecWindow == InitWindow /\ [][NextWindow]_vars

Spec == SpecSearch

----------------------------------------------------------------------------
(* Claims about initialiseData, under SpecInitialise *)

Entries(v) == IF IsMissing(v) THEN <<>> ELSE v.items

InitialisationEnded == initPc \in {"done", "threw"}

\* C1: when initialisation completes with remote entries R and cached
\* entries C, the watch list passed to initialiseContextState holds exactly
\* the symbols of R union C, each symbol once.
C1_WatchListIsUnion ==
    initPc = "done" =>
        /\ contextState.kind = "array"
        /\ Range(contextState.items) =
               Range(Entries(newStocksFromDB)) \cup Range(Entries(newStocksFromAsync))
        /\ \A s \in Symbols : Count(s, contextState.items) <= 1

\* C2: the merge issues exactly one AsyncStorage.setItem for every symbol
\* that is in the remote entries and not in the cached entries, and none for
\* a symbol already in the cache.
C2_RemoteOnlySymbolsWrittenOnce ==
    initPc = "done" =>
        \A s \in Symbols :
            Count(s, runWrites) =
                IF /\ s \in Range(Entries(newStocksFromDB))
                   /\ s \notin Range(Entries(newStocksFromAsync))
                THEN 1 ELSE 0

\* C3: a read that yields null or undefined counts as the empty set and
\* initialisation still completes: initialiseContextState is called with the
\* entries of the other source.
C3_MissingReadIsEmptySet ==
    (InitialisationEnded /\ (IsMissing(newStocksFromDB) \/ IsMissing(newStocksFromAsync))) =>
        /\ initPc = "done"
        /\ contextState.kind = "array"
        /\ Range(contextState.items) =
               Range(Entries(newStocksFromDB)) \cup Range(Entries(newStocksFromAsync))

\* C10: once the screen is unmounted, a result that arrives is discarded: no
\* persistence write is issued and initialiseContextState is not called.
C10_LateResultsDiscarded ==
    [][~mounted => (contextCalls' = contextCalls /\ asyncStorage' = asyncStorage)]_vars

----------------------------------------------------------------------------
(* Claim about the search filter, under SpecSearch *)

IsPrefix(p, s) == Len(p) <= Len(s) /\ \A i \in 1..Len(p) : s[i] = p[i]

RefMatches(stock, q) ==
    IsPrefix(toUpperCase(q), stock.Symbol) \/ IsPrefix(q, stock.Name)

RECURSIVE RefFilter(_, _)
RefFilter(list, q) ==
    IF list = <<>> THEN <<>>
    ELSE IF RefMatches(Head(list), q)
         THEN <<Head(list)>> \o RefFilter(Tail(list), q)
         ELSE RefFilter(Tail(list), q)

\* C4: the displayed rows are the reference filter of the instrument list:
\* the whole list when the query is null or empty, otherwise the instruments
\* whose Symbol starts with the upper-cased query or whose Name starts with
\* the query as typed, in the order of the list.
C4_RowDataIsReferenceFilter ==
    rowData = IF searchQuery = JSNull \/ searchQuery.items = <<>>
              THEN stockList
              ELSE RefFilter(stockList, searchQuery.items)

\* A typed lower-case query that keeps some rows and drops others, one of the
\* kept rows matching by its Symbol only.
C4_Witness ==
    /\ searchQuery # JSNull
    /\ searchQuery.items # <<>>
    /\ searchQuery.items[1] \in Range(Lower)
    /\ 0 < Len(rowData)
    /\ Len(rowData) < Len(stockList)
    /\ \E i \in 1..Len(rowData) : ~IsPrefix(searchQuery.items, rowData[i].Name)

----------------------------------------------------------------------------
(* Claim about filterByDate, under SpecWindow *)

Cutoff == now - filter[1] * TicksPerDay

RECURSIVE RefWindow(_, _)
RefWindow(series, cutoff) ==
    IF series = <<>> THEN <<>>
    ELSE IF DateOf(Head(series).labels) > cutoff
         THEN <<Head(series)>> \o RefWindow(Tail(series), cutoff)
         ELSE RefWindow(Tail(series), cutoff)

\* C5: the windowed series holds exactly the points of S whose timestamp is
\* strictly greater than now minus d days, in the order of S, and S is not
\* modified.
C5_WindowIsExact ==
    ran =>
        /\ newArray = RefWindow(delivered, Cutoff)
        /\ \A i \in 1..Len(newArray) : DateOf(newArray[i].labels) > Cutoff
        /\ Len(newArray) =
               Cardinality({i \in 1..Len(delivered) : DateOf(delivered[i].labels) > Cutoff})
        /\ stocks = delivered

\* A window of at least one day that keeps a point, drops a point that lies
\* exactly on the cutoff, and is handed a series that is not sorted.
C5_Witness ==
    /\ ran
    /\ filter[1] > 0
    /\ Len(newArray) > 0
    /\ \E i \in 1..Len(delivered) : DateOf(delivered[i].labels) = Cutoff
    /\ \E i, j \in 1..Len(delivered) :
           i < j /\ delivered[i].labels > delivered[j].labels
    /\ \E i, j \in 1..Len(delivered) :
           i < j /\ delivered[i].labels < delivered[j].labels

----------------------------------------------------------------------------
(* Claims about the StockGraph effect, under SpecGraph *)

LabelsOf(series) == [i \in 1..Len(series) |-> series[i].labels]

\* The labels at the zero-based indices i with i mod k = k - 1
RefEveryKth(s, k) ==
    LET kept == {i \in 0..(Len(s) - 1) : i % k = k - 1}
        Nth[n \in 0..Cardinality(kept)] ==
            IF n = 0 THEN -1
            ELSE CHOOSE i \in kept : i > Nth[n - 1]
                                     /\ \A j \in kept : j > Nth[n - 1] => i <= j
    IN [n \in 1..Cardinality(kept) |-> s[Nth[n] + 1]]

IsAscending(s) == \A i, j \in 1..Len(s) : i < j => s[i] < s[j]

\* C6: for a displayed series of n >= 5 points the labels shown are those at
\* the zero-based indices i with i mod k = k - 1, k = floor(n / 5).
C6_LabelsAreEveryKth ==
    (ran /\ Len(newArray) >= TargetCount) =>
        labels = RefEveryKth(LabelsOf(newArray), Len(newArray) \div TargetCount)

\* C7: down-sampling returns no more labels than it is given, and returns the
\* labels unchanged when the step floor(n / 5) is <= 0.
C7_DegenerateStepKeepsLabels ==
    ran =>
        /\ Len(labels) <= Len(newArray)
        /\ (Len(newArray) \div TargetCount <= 0 => labels = LabelsOf(newArray))

\* C9: after any sequence of window changes and toggles on a series delivered
\* in descending order, the displayed values and labels are in ascending
\* timestamp order, and with no window set the displayed values are the full
\* series projected point by point.
C9_DisplayedSeriesAscending ==
    ran =>
        /\ IsAscending(labels)
        /\ IsAscending(LabelsOf(newArray))
        /\ values = [i \in 1..Len(newArray) |->
                        IF toggle THEN newArray[i].percentage ELSE newArray[i].data]
        /\ (filter = <<>> => newArray = Reverse(delivered))

----------------------------------------------------------------------------
(* Claim about onPress, under SpecPress *)

NavigationsOf(p) ==
    {i \in 1..Len(events[p]) : events[p][i].what = "navigate"}

C8_OneNavigationAfterAddAndToken ==
    \A p \in Presses :
        /\ Cardinality(NavigationsOf(p)) = IF pressPc[p] = "done" THEN 1 ELSE 0
        /\ \A i \in NavigationsOf(p) :
               \E j, k \in 1..Len(events[p]) :
                   /\ j < k /\ k < i
                   /\ events[p][j] = [what |-> "added", to |-> pressSymbol[p]]
                   /\ pressSymbol[p] \in watchlist
                   /\ events[p][k].what = "token"
                   /\ events[p][i].to = IF events[p][k].to = NoToken
                                        THEN "SignInScreen" ELSE "Stocks"

============================================================================
